---- MODULE Spec2Model ----
(***************************************************************************)
(* State-machine model of the tundokusupa backend (src/backend/main.go)    *)
(* over the tables of the schema (src/unnamed/part_000).                   *)
(*                                                                         *)
(* The store (Supabase/PostgREST) is modelled by its two tables and by the *)
(* outcome of every call the handlers make on it: a call fails when the    *)
(* transport fails, when a filter or a value for a UUID column is not a    *)
(* UUID, or when a constraint of the schema is violated.  Rows carry the   *)
(* column names of the schema; request bodies carry the JSON keys the      *)
(* client sent; Unmarshal maps either to a Go struct through the struct's  *)
(* json tags, as encoding/json does.                                       *)
(*                                                                         *)
(* Identifiers: a UUID is a positive integer, EmptyId is the empty string  *)
(* and BadId a non-empty text that is not a UUID.  Instants are integers   *)
(* counting ticks of 1/TicksPerSec second.  The columns created_at,        *)
(* updated_at and display_name are written but never read by a handler     *)
(* and are left out of the rows.                                           *)
(***************************************************************************)
EXTENDS Integers, Sequences, FiniteSets, TLC

VARIABLES users, books, nextBook, sweeps, auths, last

vars == <<users, books, nextBook, sweeps, auths, last>>

\* ------------------------------------------------------------------ bounds
MaxUsers == 2
MaxBooks == 2
MaxTime == 4
TicksPerSec == 2
\* The sweeps in their loop and the auth-bootstrap requests between their two
\* store calls at one time: in Spec, and where executions of one handler
\* overlap (SweepSpec, AuthSpec).
MaxSweeps == 1
MaxAuths == 1
OverlapSweeps == 2
OverlapAuths == 2

\* ------------------------------------------------------------- identifiers
EmptyId == 0
BadId == 0 - 1
ZeroTime == 0

IsUUID(v) == v >= 1

UserIds == 1..MaxUsers
\* A well-formed UUID that is the id of no user row.
NoUser == MaxUsers + 1
BookIds == 1..MaxBooks
LineIds == {"", "U1"}
Times == 0..MaxTime

\* ------------------------------------------------------------ store errors
NoErr == ""
NetErrs == {NoErr, "connection refused"}

UuidErr(v) == IF IsUUID(v) THEN NoErr ELSE "invalid input syntax for type uuid"

FirstErr(a, b) == IF a # NoErr THEN a ELSE b

\* ------------------------------------------------------------ JSON decoding
\* Mutant of Fold: the tags of Book name the columns of the table.
FoldColumns(k) ==
    CASE k = "bookId" -> "book_id"
      [] k = "userId" -> "user_id"
      [] k = "insultLevel" -> "insult_level"
      [] k = "lineUserID" -> "lineuserid"
      [] k = "lineAccessToken" -> "lineaccesstoken"
      [] OTHER -> k

\* encoding/json matches an object key to a field's tag exactly or under case
\* folding; folding leaves an underscore in place.
Fold(k) ==
    CASE k = "bookId" -> "bookid"
      [] k = "userId" -> "userid"
      [] k = "insultLevel" -> "insultlevel"
      [] k = "lineUserID" -> "lineuserid"
      [] k = "lineAccessToken" -> "lineaccesstoken"
      [] OTHER -> k

BadJson == [raw |-> "{"]

BookTags ==
    [BookID |-> "bookId", UserID |-> "userId", Title |-> "title",
     Author |-> "author", Deadline |-> "deadline", Status |-> "status",
     InsultLevel |-> "insultLevel"]

BookZero ==
    [BookID |-> EmptyId, UserID |-> EmptyId, Title |-> "", Author |-> "",
     Deadline |-> ZeroTime, Status |-> "", InsultLevel |-> 0]

LineAuthTags == [LineAccessToken |-> "lineAccessToken", LineUserID |-> "lineUserID"]

LineAuthZero == [LineAccessToken |-> "", LineUserID |-> ""]

DeleteTags == [BookID |-> "bookId", UserID |-> "userId"]

CompleteTags == [BookID |-> "bookId"]

Unmarshal(obj, tags, zero) ==
    [f \in DOMAIN tags |->
        LET ks == {k \in DOMAIN obj : Fold(k) = Fold(tags[f])}
        IN  IF ks = {} THEN zero[f] ELSE obj[CHOOSE k \in ks : TRUE]]

\* ---------------------------------------------------------- request bodies
AuthBodies ==
    {BadJson} \cup {[lineAccessToken |-> "t", lineUserID |-> l] : l \in LineIds}

\* An insultLevel of 0 is also what a body without the key decodes to.  Books
\* are created for the first user, for a UUID without a user row and for a text
\* that is not a UUID.
RegisterContents ==
    {[title |-> "T", author |-> "A", deadline |-> 2, status |-> "",
      insultLevel |-> 0],
     [title |-> "T", author |-> "A", deadline |-> 1, status |-> "insulted",
      insultLevel |-> 3]}

RegisterBodies ==
    {BadJson}
    \cup {[userId |-> u, title |-> c.title, author |-> c.author,
           deadline |-> c.deadline, status |-> c.status,
           insultLevel |-> c.insultLevel] :
              u \in {1, NoUser, BadId}, c \in RegisterContents}
    \cup {[userId |-> 1, title |-> "", author |-> "A", deadline |-> 1,
           status |-> "", insultLevel |-> 3],
          [userId |-> 1, title |-> "T", author |-> "", deadline |-> 1,
           status |-> "", insultLevel |-> 3],
          [title |-> "T", author |-> "A", deadline |-> 1,
           status |-> "", insultLevel |-> 3],
          [user_id |-> 1, book_id |-> EmptyId, title |-> "T", author |-> "A",
           deadline |-> 1, status |-> "unread", insult_level |-> 3]}

UpdateBodies ==
    {BadJson}
    \cup {[bookId |-> b, userId |-> u, title |-> "T2", author |-> "A2",
           deadline |-> 2, status |-> "reading", insultLevel |-> 5] :
              b \in BookIds \cup {EmptyId}, u \in UserIds \cup {EmptyId}}

DeleteBodies ==
    {BadJson}
    \cup {[bookId |-> b, userId |-> u] :
              b \in BookIds \cup {EmptyId}, u \in UserIds \cup {EmptyId}}
    \cup {[book_id |-> 1, user_id |-> 1]}

\* The userId parameter of the query string of GET /api/books.
ListParams == UserIds \cup {EmptyId}

CompleteBodies ==
    {BadJson} \cup {[bookId |-> b] : b \in BookIds \cup {EmptyId}}
    \cup {[book_id |-> 1]}

\* CRON_SECRET of the environment and the Authorization header of the request.
CronAuths ==
    {[secret |-> "", header |-> ""],
     [secret |-> "", header |-> "Bearer x"],
     [secret |-> "s3", header |-> "Bearer s3"],
     [secret |-> "s3", header |-> ""],
     [secret |-> "s3", header |-> "s3"],
     [secret |-> "s3", header |-> "Bearer x"]}
AccessTokens == {"", "tok"}
HttpStatuses == {0, 200, 500}

SweepEnvs ==
    [lookup : NetErrs, token : AccessTokens, http : HttpStatuses, update : NetErrs]

\* ------------------------------------------------------------------- state
\* Every request is served on a goroutine of its own.  A handler that makes one
\* store call is one step, taken at that call.  sweeps holds the locals of the
\* executions of the sweep that are in their loop, auths those of the
\* auth-bootstrap requests that are between their query and their insert.
NoResponse == [op |-> "none", code |-> 0, msg |-> ""]

Init ==
    /\ users = {}
    /\ books = {}
    /\ nextBook = 1
    /\ sweeps = <<>>
    /\ auths = <<>>
    /\ last = NoResponse

\* The execution at position k has returned.
Returned(q, k) == [j \in 1..(Len(q) - 1) |-> IF j < k THEN q[j] ELSE q[j + 1]]

\* --------------------------------------------------------- /api/auth/line
\* Mutant of InsertUserErr: line_user_id is not declared UNIQUE.
InsertUserErrNoUnique(line, net) == net

InsertUserErr(line, net) ==
    FirstErr(net,
             IF \E u \in users : u.line_user_id = line
             THEN "duplicate key value violates unique constraint"
             ELSE NoErr)

\* Mutant of NeedsInsert: the insert is made without looking at the query's result.
NeedsInsertAlways(results) == TRUE

NeedsInsert(results) == results = {}
\* The handler up to its first store call, the select on users.
handleLineAuth(body, qnet) ==
    /\ UNCHANGED <<users, books, nextBook, sweeps>>
    /\ IF body = BadJson
       THEN /\ last' = [op |-> "auth", code |-> 400, msg |-> "Invalid request"]
            /\ UNCHANGED auths
       ELSE IF qnet # NoErr
       THEN /\ last' = [op |-> "auth", code |-> 500,
                        msg |-> "failed to query user: " \o qnet]
            /\ UNCHANGED auths
       ELSE LET req == Unmarshal(body, LineAuthTags, LineAuthZero)
            IN  /\ auths' = Append(auths,
                                   [line |-> req.LineUserID,
                                    results |-> {u \in users :
                                                   u.line_user_id = req.LineUserID}])
                /\ UNCHANGED last

\* The rest of the handler, for the request at position k: the insert the
\* result of the select calls for, and the response.
handleLineAuthInsert(k, inet) ==
    /\ k \in DOMAIN auths
    /\ auths' = Returned(auths, k)
    /\ UNCHANGED <<books, nextBook, sweeps>>
    /\ LET req == auths[k]
           err == InsertUserErr(req.line, inet)
           ok == [op |-> "auth", code |-> 200,
                  msg |-> "Auth pre-check successful",
                  lineUserID |-> req.line]
       IN  IF NeedsInsert(req.results)
           THEN IF err # NoErr
                THEN /\ last' = [op |-> "auth", code |-> 500,
                                 msg |-> "failed to create user: " \o err]
                     /\ UNCHANGED users
                ELSE /\ Cardinality(users) < MaxUsers
                     /\ users' = users \cup
                           {[id |-> Cardinality(users) + 1,
                             line_user_id |-> req.line]}
                     /\ last' = ok
           ELSE /\ last' = ok
                /\ UNCHANGED users

\* -------------------------------------------------------- GET /api/books
handleGetBooks(userId, net) ==
    /\ UNCHANGED <<users, books, nextBook, sweeps, auths>>
    /\ IF userId = EmptyId
       THEN last' = [op |-> "list", code |-> 400, msg |-> "userId required"]
       ELSE LET err == FirstErr(net, UuidErr(userId))
            IN  IF err # NoErr
                THEN last' = [op |-> "list", code |-> 500,
                              msg |-> "failed to fetch books: " \o err]
                ELSE last' = [op |-> "list", code |-> 200, msg |-> "",
                              rows |-> {r \in books : r.user_id = userId}]

\* ------------------------------------------------------- POST /api/books
\* Mutant of InsertBookErr: user_id is not declared as a reference to users.
InsertBookErrNoFk(row, net) == FirstErr(net, UuidErr(row.user_id))

InsertBookErr(row, net) ==
    FirstErr(net,
      FirstErr(UuidErr(row.user_id),
               IF \E u \in users : u.id = row.user_id
               THEN NoErr
               ELSE "violates foreign key constraint"))

\* Mutant of MissingFields: the owner id is not checked.
MissingFieldsNoOwner(book) == book.Title = "" \/ book.Author = ""

MissingFields(book) ==
    book.Title = "" \/ book.Author = "" \/ book.UserID = EmptyId

handleRegisterBook(body, net) ==
    /\ UNCHANGED <<users, sweeps, auths>>
    /\ IF body = BadJson
       THEN /\ last' = [op |-> "register", code |-> 400, msg |-> "Invalid request"]
            /\ UNCHANGED <<books, nextBook>>
       ELSE LET book == Unmarshal(body, BookTags, BookZero)
                status == IF book.Status = "" THEN "unread" ELSE book.Status
                insertData ==
                    [book_id |-> nextBook, user_id |-> book.UserID,
                     title |-> book.Title, author |-> book.Author,
                     deadline |-> book.Deadline, status |-> status,
                     insult_level |-> book.InsultLevel]
                err == InsertBookErr(insertData, net)
            IN  IF MissingFields(book)
                THEN /\ last' = [op |-> "register", code |-> 400,
                                 msg |-> "Missing required fields"]
                     /\ UNCHANGED <<books, nextBook>>
                ELSE IF err # NoErr
                THEN /\ last' = [op |-> "register", code |-> 500,
                                 msg |-> "failed to register book: " \o err]
                     /\ UNCHANGED <<books, nextBook>>
                ELSE /\ nextBook <= MaxBooks
                     /\ books' = books \cup {insertData}
                     /\ nextBook' = nextBook + 1
                     /\ last' = [op |-> "register", code |-> 201,
                                 msg |-> "Book registered successfully"]

\* -------------------------------------------------------- PUT /api/books
\* Mutant of UpdateMatches: the filter on user_id is left out.
UpdateMatchesIdOnly(r, book) == r.book_id = book.BookID

UpdateMatches(r, book) == r.book_id = book.BookID /\ r.user_id = book.UserID

handleUpdateBook(body, net) ==
    /\ UNCHANGED <<users, nextBook, sweeps, auths>>
    /\ IF body = BadJson
       THEN /\ last' = [op |-> "update", code |-> 400, msg |-> "Invalid request"]
            /\ UNCHANGED books
       ELSE LET book == Unmarshal(body, BookTags, BookZero)
                err == FirstErr(net, FirstErr(UuidErr(book.BookID),
                                              UuidErr(book.UserID)))
            IN  IF err # NoErr
                THEN /\ last' = [op |-> "update", code |-> 500,
                                 msg |-> "failed to update book: " \o err]
                     /\ UNCHANGED books
                ELSE /\ books' =
                          {IF UpdateMatches(r, book)
                           THEN [r EXCEPT !.title = book.Title,
                                          !.author = book.Author,
                                          !.deadline = book.Deadline,
                                          !.status = book.Status,
                                          !.insult_level = book.InsultLevel]
                           ELSE r : r \in books}
                     /\ last' = [op |-> "update", code |-> 200,
                                 msg |-> "Book updated successfully",
                                 bookId |-> book.BookID, userId |-> book.UserID]

\* ----------------------------------------------------- DELETE /api/books
\* Mutant of DeleteMatches: the filter on user_id is left out.
DeleteMatchesIdOnly(r, req) == r.book_id = req.BookID

DeleteMatches(r, req) == r.book_id = req.BookID /\ r.user_id = req.UserID

handleDeleteBook(body, net) ==
    /\ UNCHANGED <<users, nextBook, sweeps, auths>>
    /\ IF body = BadJson
       THEN /\ last' = [op |-> "delete", code |-> 400, msg |-> "Invalid request"]
            /\ UNCHANGED books
       ELSE LET req == Unmarshal(body, DeleteTags, BookZero)
                err == FirstErr(net, FirstErr(UuidErr(req.BookID),
                                              UuidErr(req.UserID)))
            IN  IF err # NoErr
                THEN /\ last' = [op |-> "delete", code |-> 500,
                                 msg |-> "failed to delete book: " \o err]
                     /\ UNCHANGED books
                ELSE /\ books' = {r \in books : ~DeleteMatches(r, req)}
                     /\ last' = [op |-> "delete", code |-> 200,
                                 msg |-> "Book deleted successfully",
                                 bookId |-> req.BookID, userId |-> req.UserID]

\* ------------------------------------------------ POST /api/books/complete
\* Mutant of CompleteMatches: the filter on book_id is left out.
CompleteMatchesAll(r, req) == TRUE

CompleteMatches(r, req) == r.book_id = req.BookID

handleCompleteBook(body, net) ==
    /\ UNCHANGED <<users, nextBook, sweeps, auths>>
    /\ IF body = BadJson
       THEN /\ last' = [op |-> "complete", code |-> 400, msg |-> "Invalid request"]
            /\ UNCHANGED books
       ELSE LET req == Unmarshal(body, CompleteTags, BookZero)
                err == FirstErr(net, UuidErr(req.BookID))
            IN  IF err # NoErr
                THEN /\ last' = [op |-> "complete", code |-> 500,
                                 msg |-> "failed to complete book: " \o err]
                     /\ UNCHANGED books
                ELSE /\ books' =
                          {IF CompleteMatches(r, req)
                           THEN [r EXCEPT !.status = "completed"]
                           ELSE r : r \in books}
                     /\ last' = [op |-> "complete", code |-> 200,
                                 msg |-> "Book marked as completed",
                                 bookId |-> req.BookID]

\* ------------------------------------------------------- /api/cron/check
\* time.Now().Format(time.RFC3339) drops the fraction of the second; the store
\* reads the text back as an instant.
FormatRFC3339(t) == (t \div TicksPerSec) * TicksPerSec

\* Mutant of Authorized: the header is compared with the bare secret.
AuthorizedBareSecret(cronSecret, authorization) ==
    ~(cronSecret # "" /\ authorization # cronSecret)

Authorized(cronSecret, authorization) ==
    ~(cronSecret # "" /\ authorization # "Bearer " \o cronSecret)

\* Mutant of Selected: the deadline filter is "less than or equal".
SelectedLte(now) ==
    {r \in books : /\ r.status \in {"unread", "insulted"}
                   /\ r.deadline <= FormatRFC3339(now)}

Selected(now) ==
    {r \in books : /\ r.status \in {"unread", "insulted"}
                   /\ r.deadline < FormatRFC3339(now)}

\* The rows of a result set in one of the orders the store may return them.
Orders(S) ==
    {s \in [1..Cardinality(S) -> S] :
        \A a, b \in 1..Cardinality(S) : a # b => s[a] # s[b]}

handleCheckDeadlines(cronSecret, authorization, now, net) ==
    /\ UNCHANGED <<users, books, nextBook, auths>>
    /\ IF ~Authorized(cronSecret, authorization)
       THEN /\ last' = [op |-> "cron", code |-> 401, msg |-> "Unauthorized"]
            /\ UNCHANGED sweeps
       ELSE IF net # NoErr
       THEN /\ last' = [op |-> "cron", code |-> 500,
                        msg |-> "database error: " \o net]
            /\ UNCHANGED sweeps
       ELSE /\ UNCHANGED last
            /\ \E resp \in Orders(Selected(now)) :
                 sweeps' = Append(sweeps,
                     [rows |-> resp,
                      books |-> [j \in 1..Len(resp) |->
                                    Unmarshal(resp[j], BookTags, BookZero)],
                      i |-> 1, at |-> "lookup", count |-> 0, trace |-> <<>>])

sendLineMessage(accessToken, httpStatus) ==
    IF accessToken = "" THEN "LINE_CHANNEL_ACCESS_TOKEN is not set"
    ELSE IF httpStatus = 0 THEN "request failed"
    ELSE IF httpStatus # 200 THEN "LINE API error"
    ELSE NoErr

\* Mutant of LoopStep: the counter goes up in every iteration.
LoopStepCountAll(s, delivered, entry) ==
    [s EXCEPT !.i = s.i + 1,
              !.at = "lookup",
              !.count = s.count + 1,
              !.trace = Append(s.trace, entry)]

\* Mutant of LoopStep: a book that was not notified ends the loop.
LoopStepBreak(s, delivered, entry) ==
    [s EXCEPT !.i = IF delivered THEN s.i + 1 ELSE Len(s.books) + 1,
              !.at = "lookup",
              !.count = IF delivered THEN s.count + 1 ELSE s.count,
              !.trace = Append(s.trace, entry)]

\* The loop's bookkeeping at the end of an iteration: the counter, the position
\* in the slice and the record of what the iteration did (the id of the row it
\* was decoded from, the id looked up, whether a push request was made, whether
\* the message was delivered, whether the status was written; completed tells
\* whether the row is completed in the table when the iteration ends).
LoopStep(s, delivered, entry) ==
    [s EXCEPT !.i = s.i + 1,
              !.at = "lookup",
              !.count = IF delivered THEN s.count + 1 ELSE s.count,
              !.trace = Append(s.trace, entry)]

\* One network call of the sweep at position k, in the iteration of its book i:
\* the lookup of the owner's row, the push to the messaging provider or the
\* write of the status.  The goroutine waits on each of them, and other
\* requests are served meanwhile.
SweepBook(k, env) ==
    /\ k \in DOMAIN sweeps
    /\ sweeps[k].i <= Len(sweeps[k].books)
    /\ UNCHANGED <<users, nextBook, last, auths>>
    /\ LET sweep == sweeps[k]
           book == sweep.books[sweep.i]
           row == sweep.rows[sweep.i]
           lookupErr == FirstErr(env.lookup, UuidErr(book.UserID))
           found == IF lookupErr = NoErr
                    THEN {u \in users : u.id = book.UserID}
                    ELSE {}
           sendErr == sendLineMessage(env.token, env.http)
           updErr == FirstErr(env.update, UuidErr(book.BookID))
           entry == [book_id |-> row.book_id,
                     completed |-> \E r \in books : /\ r.book_id = row.book_id
                                                     /\ r.status = "completed",
                     lookup |-> book.UserID,
                     sent |-> sweep.at = "update"
                              \/ (sweep.at = "push" /\ env.token # ""),
                     delivered |-> sweep.at = "update",
                     written |-> sweep.at = "update" /\ updErr = NoErr]
       IN  IF sweep.at = "lookup"
           THEN /\ sweeps' = [sweeps EXCEPT ![k] =
                                 IF found # {}
                                 THEN [sweep EXCEPT !.at = "push"]
                                 ELSE LoopStep(sweep, FALSE, entry)]
                /\ UNCHANGED books
           ELSE IF sweep.at = "push"
           THEN /\ sweeps' = [sweeps EXCEPT ![k] =
                                 IF sendErr = NoErr
                                 THEN [sweep EXCEPT !.at = "update"]
                                 ELSE LoopStep(sweep, FALSE, entry)]
                /\ UNCHANGED books
           ELSE /\ books' = IF updErr = NoErr
                            THEN {IF r.book_id = book.BookID
                                  THEN [r EXCEPT !.status = "insulted"]
                                  ELSE r : r \in books}
                            ELSE books
                /\ sweeps' = [sweeps EXCEPT ![k] = LoopStep(sweep, TRUE, entry)]

\* The loop of the sweep at position k is over: the response is written and
\* the handler returns.
SweepRespond(k) ==
    /\ k \in DOMAIN sweeps
    /\ sweeps[k].i > Len(sweeps[k].books)
    /\ last' = [op |-> "cron", code |-> 200,
                msg |-> "Checked deadlines. Found " \o ToString(sweeps[k].count)
                        \o " expired books."]
    /\ sweeps' = Returned(sweeps, k)
    /\ UNCHANGED <<users, books, nextBook, auths>>

\* ------------------------------------------------------------ other routes
\* An OPTIONS request to any route is answered by the middleware.
corsMiddleware ==
    /\ last' = [op |-> "options", code |-> 200, msg |-> ""]
    /\ UNCHANGED <<users, books, nextBook, sweeps, auths>>

\* /api/books with a method other than GET, POST, PUT and DELETE.
handleBooks ==
    /\ last' = [op |-> "books", code |-> 405, msg |-> "Method not allowed"]
    /\ UNCHANGED <<users, books, nextBook, sweeps, auths>>

\* The routes "/" and "/health".
handleRoot ==
    /\ last' \in {[op |-> "root", code |-> 200,
                    msg |-> "Hello from Backend (Supabase Edition)!"],
                   [op |-> "health", code |-> 200, msg |-> "OK"]}
    /\ UNCHANGED <<users, books, nextBook, sweeps, auths>>

\* The response written last is taken by its client.
ResponseSent ==
    /\ last # NoResponse
    /\ last' = NoResponse
    /\ UNCHANGED <<users, books, nextBook, sweeps, auths>>

\* ------------------------------------------------------------ helper terms
Range(q) == {q[k] : k \in DOMAIN q}

\* The loop of a sweep has run over all the rows it selected.
LoopDone(s) == s.i > Len(s.books)

\* The store answers, the owner's row is there and the messaging provider takes
\* the message: nothing outside the handler keeps the book from being notified.
CollaboratorsOk(env) ==
    /\ env.lookup = NoErr
    /\ env.update = NoErr
    /\ env.token # ""
    /\ env.http = 200

OwnerExists(row) ==
    \E u \in users : u.id = row.user_id /\ u.line_user_id # ""

StatusIn(table, id) == {r.status : r \in {x \in table : x.book_id = id}}

\* ----------------------------------------------------------- specification
\* Every request is served on its own goroutine: a handler takes its next step
\* whenever it has one, between any two steps of the others.  last is not a
\* variable of the program: it shows the response written by the step just
\* taken, until ResponseSent (possible whenever a response is shown) clears it,
\* so that every response of a behaviour can be observed in turn.  The program
\* puts no limit on the requests it serves at one time; MaxSweeps and MaxAuths
\* bound the executions that are between two of their calls.
Next ==
    \/ last = NoResponse /\ \E body \in AuthBodies, qnet \in NetErrs :
                               /\ handleLineAuth(body, qnet)
                               /\ Len(auths') <= MaxAuths
    \/ last = NoResponse /\ \E k \in DOMAIN auths, inet \in NetErrs :
                               handleLineAuthInsert(k, inet)
    \/ last = NoResponse /\ \E userId \in ListParams, net \in NetErrs :
                               handleGetBooks(userId, net)
    \/ last = NoResponse /\ \E body \in RegisterBodies, net \in NetErrs :
                               handleRegisterBook(body, net)
    \/ last = NoResponse /\ \E body \in UpdateBodies, net \in NetErrs :
                               handleUpdateBook(body, net)
    \/ last = NoResponse /\ \E body \in DeleteBodies, net \in NetErrs :
                               handleDeleteBook(body, net)
    \/ last = NoResponse /\ \E body \in CompleteBodies, net \in NetErrs :
                               handleCompleteBook(body, net)
    \/ last = NoResponse /\
          \E a \in CronAuths, now \in Times, net \in NetErrs :
             /\ handleCheckDeadlines(a.secret, a.header, now, net)
             /\ Len(sweeps') <= MaxSweeps
    \/ last = NoResponse /\ \E k \in DOMAIN sweeps, env \in SweepEnvs :
                               SweepBook(k, env)
    \/ last = NoResponse /\ \E k \in DOMAIN sweeps : SweepRespond(k)
    \/ last = NoResponse /\ corsMiddleware
    \/ last = NoResponse /\ handleBooks
    \/ last = NoResponse /\ handleRoot
    \/ ResponseSent

Spec == Init /\ [][Next]_vars

\* Sweeps that overlap, OverlapSweeps at a time: each takes its network calls
\* between any two calls of the others and of the requests that create a user,
\* put overdue books of that user in the table, rewrite them, delete them and
\* mark them completed; the store answers these requests.
OverlapAuthBodies == {[lineAccessToken |-> "t", lineUserID |-> "U1"]}

OverlapRegisterBodies ==
    {[userId |-> 1, title |-> c.title, author |-> c.author,
      deadline |-> c.deadline, status |-> c.status,
      insultLevel |-> c.insultLevel] : c \in RegisterContents}

OverlapUpdateBodies ==
    {[bookId |-> b, userId |-> 1, title |-> "T2", author |-> "A2",
      deadline |-> 2, status |-> "reading", insultLevel |-> 5] : b \in BookIds}

OverlapDeleteBodies == {[bookId |-> b, userId |-> 1] : b \in BookIds}

OverlapCompleteBodies == {[bookId |-> b] : b \in BookIds}

NextSweeps ==
    \/ last = NoResponse /\ \E body \in OverlapAuthBodies :
                               /\ handleLineAuth(body, NoErr)
                               /\ Len(auths') <= OverlapAuths
    \/ last = NoResponse /\ \E k \in DOMAIN auths : handleLineAuthInsert(k, NoErr)
    \/ last = NoResponse /\ \E body \in OverlapRegisterBodies :
                               handleRegisterBook(body, NoErr)
    \/ last = NoResponse /\ \E body \in OverlapUpdateBodies :
                               handleUpdateBook(body, NoErr)
    \/ last = NoResponse /\ \E body \in OverlapDeleteBodies :
                               handleDeleteBook(body, NoErr)
    \/ last = NoResponse /\ \E body \in OverlapCompleteBodies :
                               handleCompleteBook(body, NoErr)
    \/ last = NoResponse /\ handleCheckDeadlines("", "", MaxTime, NoErr)
                         /\ Len(sweeps') <= OverlapSweeps
    \/ last = NoResponse /\ \E k \in DOMAIN sweeps, env \in SweepEnvs :
                               SweepBook(k, env)
    \/ last = NoResponse /\ \E k \in DOMAIN sweeps : SweepRespond(k)
    \/ ResponseSent

SweepSpec == Init /\ [][NextSweeps]_vars

\* Auth-bootstrap requests that overlap, OverlapAuths at a time: each takes its
\* store calls between the query and the insert of the others.
NextAuth ==
    \/ last = NoResponse /\ \E body \in AuthBodies, qnet \in NetErrs :
                               /\ handleLineAuth(body, qnet)
                               /\ Len(auths') <= OverlapAuths
    \/ last = NoResponse /\ \E k \in DOMAIN auths, inet \in NetErrs :
                               handleLineAuthInsert(k, inet)
    \/ ResponseSent

AuthSpec == Init /\ [][NextAuth]_vars

\* The behaviours of Spec in which the sweep keeps being requested late enough
\* for every deadline of the table to have passed, with the store answering,
\* in which a call of an iteration that finds the store, the credential and
\* the messaging provider in order keeps coming, and in which the sweep's
\* goroutine keeps being scheduled.  A step of the sweep is not enabled while
\* another step's response is shown, hence strong fairness.
FairSpec ==
    /\ Spec
    /\ SF_vars(/\ last = NoResponse
               /\ handleCheckDeadlines("", "", MaxTime, NoErr)
               /\ Len(sweeps') <= MaxSweeps)
    /\ SF_vars(last = NoResponse /\
                  \E k \in DOMAIN sweeps, env \in SweepEnvs :
                     CollaboratorsOk(env) /\ SweepBook(k, env))
    /\ SF_vars(last = NoResponse /\ \E k \in DOMAIN sweeps : SweepRespond(k))
    /\ WF_vars(ResponseSent)

\* ------------------------------------------------------------------ claims
\* The iteration of book i of the sweep at position k ends with this step.
IterationEnds(k) ==
    /\ Len(sweeps') = Len(sweeps)
    /\ sweeps'[k].i = sweeps[k].i + 1

\* The record of the iteration that ends with this step.
EndedEntry(k) == sweeps'[k].trace[Len(sweeps'[k].trace)]

\* The ids of the rows a sweep selected.
SelectedIds(s) == {s.rows[j].book_id : j \in DOMAIN s.rows}

\* C1: when the iteration of a selected book ends, the book is insulted if its
\* message was delivered, and the table is as it was if the owner lookup or the
\* delivery failed; no call of a sweep changes a book in any other way than by
\* setting its status to insulted.
C1_SweepOutcome ==
    [][\A k \in DOMAIN sweeps, env \in SweepEnvs :
          SweepBook(k, env) =>
             /\ IF IterationEnds(k) /\ EndedEntry(k).delivered
                THEN StatusIn(books', sweeps[k].rows[sweeps[k].i].book_id)
                        \subseteq {"insulted"}
                ELSE books' = books
             /\ Cardinality(books') = Cardinality(books)
             /\ \A r \in books' :
                   \/ r \in books
                   \/ \E q \in books : r = [q EXCEPT !.status = "insulted"]]_vars

\* The iteration of an unread book whose owner has an external id has ended at
\* the owner lookup: nothing was delivered and the book is as it was selected.
C1_Witness ==
    \E k \in DOMAIN sweeps : \E j \in DOMAIN sweeps[k].trace :
        /\ sweeps[k].rows[j].status = "unread"
        /\ OwnerExists(sweeps[k].rows[j])
        /\ sweeps[k].trace[j].lookup = EmptyId
        /\ ~sweeps[k].trace[j].delivered
        /\ sweeps[k].rows[j] \in books

\* The parts of C2: what the selection leaves out, and what the loop may touch.
C2_NotSelected(r, now) ==
    \/ r.status \in {"completed", "reading"}
    \/ r.deadline >= now

C2_SelectionBound ==
    [][Len(sweeps') > Len(sweeps) =>
          \A a \in CronAuths, now \in Times, net \in NetErrs :
             \/ \A r \in books :
                   C2_NotSelected(r, now) =>
                      r \notin Range(sweeps'[Len(sweeps')].rows)
             \/ ~handleCheckDeadlines(a.secret, a.header, now, net)]_vars

C2_OnlySelectedTouched ==
    [][\A k \in DOMAIN sweeps :
          (\E env \in SweepEnvs : SweepBook(k, env)) =>
             /\ \A r \in books :
                   r.book_id \notin SelectedIds(sweeps[k]) => r \in books'
             /\ \A j \in DOMAIN sweeps'[k].trace :
                   /\ sweeps'[k].trace[j].book_id \in SelectedIds(sweeps[k])
                   /\ sweeps'[k].trace[j].lookup \in
                         {EmptyId} \cup {sweeps[k].rows[n].user_id :
                                            n \in DOMAIN sweeps[k].rows}]_vars

\* C2: a sweep selects no book whose status is completed or reading and no book
\* whose deadline is not strictly before the sweep's now; its lookups, messages
\* and writes are for the rows it selected only.
C2_SweepSelection == C2_SelectionBound /\ C2_OnlySelectedTouched

\* A sweep is in its loop over a later book while a completed book with an
\* earlier deadline is in the table and not in the selection.
C2_Witness ==
    \E k \in DOMAIN sweeps :
        /\ sweeps[k].trace = <<>>
        /\ \E r \in books, j \in DOMAIN sweeps[k].rows :
              /\ r.status = "completed"
              /\ r.deadline <= sweeps[k].rows[j].deadline
              /\ r.book_id < sweeps[k].rows[j].book_id
              /\ r.book_id \notin SelectedIds(sweeps[k])

\* C3: the sweep runs iff no cron secret is configured or the Authorization
\* header is "Bearer " followed by the secret; otherwise the answer is 401 and
\* nothing is read, sent or written.
C3_CronAuthorization ==
    [][(last'.op = "cron" \/ Len(sweeps') > Len(sweeps)) =>
        \A a \in CronAuths, now \in Times, net \in NetErrs :
          \/ IF a.secret = "" \/ a.header = "Bearer " \o a.secret
             THEN /\ last'.code # 401
                  /\ net = NoErr => Len(sweeps') = Len(sweeps) + 1
             ELSE /\ last'.code = 401
                  /\ last'.msg = "Unauthorized"
                  /\ sweeps' = sweeps
                  /\ books' = books /\ users' = users
          \/ ~handleCheckDeadlines(a.secret, a.header, now, net)]_vars

C3_Witness ==
    /\ last.op = "cron"
    /\ last.code = 401
    /\ sweeps = <<>>
    /\ Selected(MaxTime) # {}

\* The parts of C4: the counter during the loop, and the count in the response.
C4_Delivered(s) == Cardinality({j \in DOMAIN s.trace : s.trace[j].delivered})

C4_CountInLoop ==
    \A k \in DOMAIN sweeps :
        /\ sweeps[k].count = C4_Delivered(sweeps[k])
        /\ sweeps[k].count \in 0..Len(sweeps[k].rows)

C4_CountReported ==
    [][\A k \in DOMAIN sweeps :
          SweepRespond(k) =>
             /\ Len(sweeps[k].trace) = Len(sweeps[k].rows)
             /\ last'.msg = "Checked deadlines. Found "
                               \o ToString(C4_Delivered(sweeps[k]))
                               \o " expired books."]_vars

\* C4: the count a sweep reports is the number of the books it selected whose
\* message was delivered in that pass: it lies between 0 and the number of
\* selected books, and an iteration that ends at a failed lookup or a failed
\* delivery adds nothing to it.
C4_CountIsDelivered == []C4_CountInLoop /\ C4_CountReported

\* A sweep has run over every row it selected, the owner of one of them has an
\* external id, no message was delivered and the counter is 0.
C4_Witness ==
    \E k \in DOMAIN sweeps :
        /\ LoopDone(sweeps[k])
        /\ Len(sweeps[k].rows) >= 2
        /\ sweeps[k].count = 0
        /\ \E j \in DOMAIN sweeps[k].trace :
              /\ OwnerExists(sweeps[k].rows[j])
              /\ ~sweeps[k].trace[j].delivered

\* The parts of C5: the loop's position and record, and the steps it can take.
C5_OncePerBook ==
    \A k \in DOMAIN sweeps :
        /\ sweeps[k].i \in 1..(Len(sweeps[k].rows) + 1)
        /\ Len(sweeps[k].trace) = sweeps[k].i - 1
        /\ \A j \in DOMAIN sweeps[k].trace :
              sweeps[k].trace[j].book_id = sweeps[k].rows[j].book_id
        /\ \A j, n \in DOMAIN sweeps[k].rows :
              j # n => sweeps[k].rows[j].book_id # sweeps[k].rows[n].book_id
        /\ ENABLED (SweepRespond(k) \/ \E env \in SweepEnvs : SweepBook(k, env))

C5_StepOf(s, t) ==
    /\ t.rows = s.rows
    /\ \/ /\ t.i = s.i + 1
          /\ t.at = "lookup"
          /\ Len(t.trace) = Len(s.trace) + 1
          /\ last' = last
       \/ /\ t.i = s.i
          /\ t.trace = s.trace
          /\ <<s.at, t.at>> \in {<<"lookup", "push">>, <<"push", "update">>}

C5_RunsToEnd ==
    [][sweeps' # sweeps =>
          \/ /\ Len(sweeps') = Len(sweeps) + 1
             /\ SubSeq(sweeps', 1, Len(sweeps)) = sweeps
          \/ \E k \in DOMAIN sweeps :
                /\ Len(sweeps') = Len(sweeps)
                /\ sweeps' = [sweeps EXCEPT ![k] = sweeps'[k]]
                /\ C5_StepOf(sweeps[k], sweeps'[k])
          \/ \E k \in DOMAIN sweeps :
                /\ sweeps' = Returned(sweeps, k)
                /\ Len(sweeps[k].trace) = Len(sweeps[k].rows)
                /\ last'.op = "cron" /\ last'.code = 200]_vars

\* C5: within one pass every selected book is processed exactly once, in the
\* order of the result set, whatever happened to the books before it; the pass
\* can always take its next step, ends after the last selected book and is
\* answered with 200.
C5_SweepProcessesAll == []C5_OncePerBook /\ C5_RunsToEnd

C5_Witness ==
    \E k \in DOMAIN sweeps :
        /\ LoopDone(sweeps[k])
        /\ Len(sweeps[k].rows) >= 2
        /\ ~sweeps[k].trace[1].delivered

\* The request of C6, as the handler decodes it.
C6_HasEmptyField(body) ==
    LET book == Unmarshal(body, BookTags, BookZero)
    IN  book.Title = "" \/ book.Author = "" \/ book.UserID = EmptyId

\* C6: a create-book request whose title, author or owner id is empty is
\* answered with 400 and creates no book row.
C6_RegisterRejectsEmpty ==
    [][last'.op = "register" =>
        \A body \in RegisterBodies \ {BadJson} :
          \/ ~C6_HasEmptyField(body)
          \/ /\ last'.code = 400
             /\ books' = books
             /\ nextBook' = nextBook
          \/ \A net \in NetErrs : ~handleRegisterBook(body, net)]_vars

C6_Witness ==
    /\ last.op = "register"
    /\ last.code = 400
    /\ last.msg = "Missing required fields"
    /\ users # {}
    /\ nextBook <= MaxBooks

\* The parts of C7: the rows per external id, and the call that finds its row.
C7_OneRowPerLineId ==
    /\ \A u, v \in users : u.line_user_id = v.line_user_id => u = v
    /\ (last.op = "auth" /\ last.code = 200) =>
          Cardinality({u \in users : u.line_user_id = last.lineUserID}) = 1

C7_SecondCallInsertsNothing ==
    [][\A k \in DOMAIN auths :
          auths' = Returned(auths, k) =>
             /\ (\E u \in users : u.line_user_id = auths[k].line) => users' = users
             /\ auths[k].results # {} => last'.code = 200]_vars

\* C7: auth-bootstrap is idempotent: a call for an external id that already has
\* a user row inserts nothing and succeeds when the store answers the query;
\* after a successful call exactly one row has that id, and no two rows ever
\* share an external id.
C7_AuthIdempotent == []C7_OneRowPerLineId /\ C7_SecondCallInsertsNothing

\* The row of the answered call was made before another user's row: the call
\* answered last found its row already there.
C7_Witness ==
    /\ last.op = "auth"
    /\ last.code = 200
    /\ \E u, v \in users : /\ u.line_user_id = last.lineUserID
                           /\ u.id < v.id

\* C8: a delete-book request whose owner id is not the owner of the book with
\* the given book id leaves every book row present and unchanged.
C8_DeleteOwnerScoped ==
    [][last'.op = "delete" =>
        \A body \in DeleteBodies \ {BadJson} :
          LET req == Unmarshal(body, DeleteTags, BookZero)
          IN  \/ books' = books
              \/ ~\E r \in books : /\ r.book_id = req.BookID
                                    /\ r.user_id # req.UserID
              \/ \A net \in NetErrs : ~handleDeleteBook(body, net)]_vars

C8_Witness ==
    /\ last.op = "delete"
    /\ last.code = 200
    /\ \E r \in books : r.book_id = last.bookId /\ r.user_id # last.userId

\* C9: an update-book request changes a book row only when the request's book
\* id and owner id both match the row; no row appears, disappears or changes
\* its id or owner.
C9_UpdateOwnerScoped ==
    [][last'.op = "update" =>
        \A body \in UpdateBodies \ {BadJson}, net \in NetErrs :
          LET book == Unmarshal(body, BookTags, BookZero)
          IN  \/ /\ \A r \in books :
                       \/ r \in books'
                       \/ r.book_id = book.BookID /\ r.user_id = book.UserID
                 /\ {[book_id |-> r.book_id, user_id |-> r.user_id] : r \in books'}
                      = {[book_id |-> r.book_id, user_id |-> r.user_id] : r \in books}
              \/ ~handleUpdateBook(body, net)]_vars

C9_Witness ==
    /\ last.op = "update"
    /\ last.code = 200
    /\ \E r \in books : /\ r.book_id = last.bookId
                        /\ r.user_id # last.userId
                        /\ r.title = "T"

\* C10: after a successful mark-book-completed request for book id b the book
\* with id b has status completed and every other book row is as it was.
C10_CompleteOnlyThatBook ==
    [][last'.op = "complete" =>
        \A body \in CompleteBodies \ {BadJson}, net \in NetErrs :
          LET req == Unmarshal(body, CompleteTags, BookZero)
          IN  \/ last'.code # 200
              \/ /\ \A r \in books' : r.book_id = req.BookID => r.status = "completed"
                 /\ \A r \in books : r.book_id # req.BookID => r \in books'
                 /\ \A r \in books : r.book_id = req.BookID =>
                       [r EXCEPT !.status = "completed"] \in books'
                 /\ Cardinality(books') = Cardinality(books)
              \/ ~handleCompleteBook(body, net)]_vars

C10_Witness ==
    /\ last.op = "complete"
    /\ last.code = 200
    /\ \E r, o \in books : /\ r.book_id = last.bookId
                           /\ r.status = "completed"
                           /\ o.book_id # r.book_id
                           /\ o.status # "completed"

\* C11: every stored book has a status among unread, reading, completed and
\* insulted and an insult level from 1 to 5.
C11_StatusAndLevelInDomain ==
    \A r \in books : /\ r.status \in {"unread", "reading", "completed", "insulted"}
                     /\ r.insult_level \in 1..5

\* C12: every book row has one owner id, that of an existing user row and the
\* one the book was created with: no step stores a book for a user that does
\* not exist, changes the owner of a book or removes a user.
C12_OneExistingOwner ==
    /\ \A r \in books : \E u \in users : u.id = r.user_id
    /\ \A r, q \in books : r.book_id = q.book_id => r = q

C12_OwnerKept ==
    [][/\ \A r \in books, q \in books' :
             r.book_id = q.book_id => r.user_id = q.user_id
       /\ users \subseteq users']_vars

C12_BookOwnership == []C12_OneExistingOwner /\ C12_OwnerKept

C12_Witness ==
    /\ last.op = "register"
    /\ last.code = 500
    /\ last.msg = "failed to register book: violates foreign key constraint"
    /\ \E r \in books : r.title = "T2" /\ \E u \in users : u.id = r.user_id

\* C13: a request to auth-bootstrap, create, update, delete or complete whose
\* required identifying field is empty (the external platform id; the title,
\* author or owner id; the book id or owner id; the book id) is answered 400
\* whatever the store would answer, and the tables are left as they were.
C13_Rejected == last'.code = 400 /\ users' = users /\ books' = books

C13_EmptyFieldRejected ==
    [][/\ ((last'.op = "auth" /\ auths' = auths) \/ Len(auths') > Len(auths)) =>
             \A body \in AuthBodies \ {BadJson}, qnet \in NetErrs :
                \/ C13_Rejected
                \/ Unmarshal(body, LineAuthTags, LineAuthZero).LineUserID # ""
                \/ ~handleLineAuth(body, qnet)
       /\ last'.op = "register" =>
             \A body \in RegisterBodies \ {BadJson}, net \in NetErrs :
                \/ C13_Rejected
                \/ ~MissingFields(Unmarshal(body, BookTags, BookZero))
                \/ ~handleRegisterBook(body, net)
       /\ last'.op = "update" =>
             \A body \in UpdateBodies \ {BadJson}, net \in NetErrs :
                LET book == Unmarshal(body, BookTags, BookZero)
                IN  \/ C13_Rejected
                    \/ book.BookID # EmptyId /\ book.UserID # EmptyId
                    \/ ~handleUpdateBook(body, net)
       /\ last'.op = "delete" =>
             \A body \in DeleteBodies \ {BadJson}, net \in NetErrs :
                LET req == Unmarshal(body, DeleteTags, BookZero)
                IN  \/ C13_Rejected
                    \/ req.BookID # EmptyId /\ req.UserID # EmptyId
                    \/ ~handleDeleteBook(body, net)
       /\ last'.op = "complete" =>
             \A body \in CompleteBodies \ {BadJson}, net \in NetErrs :
                \/ C13_Rejected
                \/ Unmarshal(body, CompleteTags, BookZero).BookID # EmptyId
                \/ ~handleCompleteBook(body, net)]_vars

\* C14: a 500 response carries a generic message: its body is not a handler's
\* prefix followed by the text of the store's error.
C14_StoreErrors ==
    (NetErrs \ {NoErr})
    \cup {UuidErr(EmptyId), "duplicate key value violates unique constraint",
          "violates foreign key constraint"}

C14_Prefixes ==
    {"failed to query user: ", "failed to create user: ",
     "failed to fetch books: ", "failed to register book: ",
     "failed to update book: ", "failed to delete book: ",
     "failed to complete book: ", "database error: "}

C14_GenericServerError ==
    last.code = 500 =>
        \A p \in C14_Prefixes, e \in C14_StoreErrors : last.msg # p \o e

\* C15: nothing keeps a sweep from notifying a book that another execution of
\* the sweep holds in its selection too: its iteration over such a book, with
\* the owner's row in place and the collaborators in order, delivers the
\* message, so that both executions deliver one for the same book.
C15_HeldByOther(k, row) ==
    \E n \in DOMAIN sweeps :
        /\ n # k
        /\ \E j \in DOMAIN sweeps[n].rows : sweeps[n].rows[j].book_id = row.book_id

C15_BothDeliver ==
    [][\A k \in DOMAIN sweeps, env \in SweepEnvs :
          (/\ SweepBook(k, env)
           /\ IterationEnds(k)
           /\ CollaboratorsOk(env)
           /\ OwnerExists(sweeps[k].rows[sweeps[k].i])
           /\ sweeps[k].rows[sweeps[k].i] \in books
           /\ C15_HeldByOther(k, sweeps[k].rows[sweeps[k].i]))
          => sweeps'[k].trace[Len(sweeps'[k].trace)].delivered]_vars

\* C16: when sweeps keep being run and delivery succeeds, a book that is
\* unread, overdue and owned by a user with an external id is eventually no
\* longer unread: it is insulted, unless a request completed, updated or
\* deleted it first.
C16_OverdueUnread(b) ==
    \E r \in books : /\ r.book_id = b
                     /\ r.status = "unread"
                     /\ r.deadline < FormatRFC3339(MaxTime)
                     /\ OwnerExists(r)

C16_EventuallyInsulted ==
    \A b \in BookIds : C16_OverdueUnread(b) ~> (StatusIn(books, b) # {"unread"})

\* The parts of C17: a call of a sweep leaves a completed book as it is, and
\* the sweep reaches its status write for a book completed after the selection.
C17_CompletedStays ==
    [][\/ books' = books
       \/ \A k \in DOMAIN sweeps, env \in SweepEnvs : ~SweepBook(k, env)
       \/ \A r \in books : r.status = "completed" => r \in books']_vars

C17_WriteAfterCompletion ==
    [][\A k \in DOMAIN sweeps, env \in SweepEnvs :
          (/\ SweepBook(k, env)
           /\ IterationEnds(k)
           /\ CollaboratorsOk(env)
           /\ OwnerExists(sweeps[k].rows[sweeps[k].i])
           /\ sweeps[k].rows[sweeps[k].i].status # "completed"
           /\ StatusIn(books, sweeps[k].rows[sweeps[k].i].book_id) = {"completed"})
          => EndedEntry(k).written]_vars

C18_UniqueLineId ==
    \A u, v \in users : u.line_user_id = v.line_user_id => u = v

C18_Witness ==
    /\ last.op = "auth"
    /\ last.code = 500
    /\ last.msg = "failed to create user: duplicate key value violates unique constraint"
    /\ \E u \in users : u.line_user_id = "U1"

====
